---------------------------- MODULE Spec2Model ----------------------------
(***************************************************************************)
(* A model of the YouTube summarizer backend: the single-invocation        *)
(* function (src/summarize-function.js) and the long-running server        *)
(* (src/server.js).                                                        *)
(*                                                                         *)
(* JavaScript strings that the code inspects character by character (URLs, *)
(* model names, durations, generated text, transcripts) are sequences of   *)
(* strings, one per UTF-16 code unit: the character itself, or "U+XXXX"    *)
(* for a code unit that a TLA+ string cannot hold.  Opaque strings (titles, *)
(* error messages) are TLA+ strings; UNDEF stands for the JavaScript value *)
(* undefined.                                                              *)
(***************************************************************************)
EXTENDS Naturals, Sequences, FiniteSets, TLC

VARIABLES
    \* ---- URL parser exercised on its own
    url,            \* the string handed to extractVideoId
    parsed,         \* its result, once parseDone
    parseDone,
    \* ---- formatting cleanup exercised on its own
    text,           \* the string handed to cleanFormatting
    passes,         \* how many times cleanFormatting has been applied
    out1,           \* result of the first application
    out2,           \* result of the second application
    \* ---- one request, handled by the function variant
    youtubeKey,     \* process.env.YOUTUBE_API_KEY is set
    geminiKey,      \* process.env.GEMINI_API_KEY is set
    event,          \* the inbound request: [httpMethod, body]
    pc,             \* position of exports.handler
    req,            \* the destructured body: youtube_link, model, additional_prompt
    videoId,
    metaState,      \* "idle" | "pending" | "settled": the metadata branch of Promise.all
    transState,     \* the same for the transcript branch
    metadata,       \* value of the metadata branch
    transcript,     \* value of the transcript branch
    modelName,
    prompt,
    calls,          \* outbound calls issued: [meta, trans, gen]
    responses,      \* responses returned by exports.handler
    escaped,        \* an exception left exports.handler
    \* ---- history of the request (not read by the handler)
    stages,         \* stages the request went through, in order
    settleOrder,    \* the order in which the fetch branches settled
    outcomes,       \* what the upstream services answered: [meta, trans, gen]
    \* ---- the server variant
    srvPc,          \* position of the node process started on src/server.js
    srvResponses    \* responses sent by app.post('/summarize')

pureVars == <<url, parsed, parseDone, text, passes, out1, out2>>
fnVars == <<youtubeKey, geminiKey, event, pc, req, videoId, metaState, transState, metadata,
            transcript, modelName, prompt, calls, responses, escaped,
            stages, settleOrder, outcomes>>
srvVars == <<srvPc, srvResponses>>
vars == <<pureVars, fnVars, srvVars>>

-----------------------------------------------------------------------------
(* Bounds of the model *)

\* longest text handed to cleanFormatting
MaxTextLen == 4
\* longest token placed after a URL shape
MaxTokenLen == 12
\* most caption fragments a transcript answer holds
MaxFragments == 2

-----------------------------------------------------------------------------
(* Characters *)

Digits == {"0", "1", "2", "3", "4", "5", "6", "7", "8", "9"}
Letters ==
    {"a", "b", "c", "d", "e", "f", "g", "h", "i", "j", "k", "l", "m",
     "n", "o", "p", "q", "r", "s", "t", "u", "v", "w", "x", "y", "z",
     "A", "B", "C", "D", "E", "F", "G", "H", "I", "J", "K", "L", "M",
     "N", "O", "P", "Q", "R", "S", "T", "U", "V", "W", "X", "Y", "Z"}
\* \w
WordChars == Letters \cup Digits \cup {"_"}
\* \s and the characters trim() strips: the white space and the line
\* terminators of ECMAScript
SpaceChars ==
    {"\t", "\n", "U+000B", "\f", "\r", " ", "U+00A0", "U+1680",
     "U+2000", "U+2001", "U+2002", "U+2003", "U+2004", "U+2005", "U+2006",
     "U+2007", "U+2008", "U+2009", "U+200A",
     "U+2028", "U+2029", "U+202F", "U+205F", "U+3000", "U+FEFF"}
\* characters that "." does not match and that end a line for ^ and $
LineTerminators == {"\n", "\r", "U+2028", "U+2029"}

Max(S) == CHOOSE m \in S : \A n \in S : n <= m
Min2(a, b) == IF a <= b THEN a ELSE b

\* Op applied to the value of its arguments: each argument is evaluated once,
\* however often Op uses it
Apply1(Op(_), x) == CHOOSE r \in {Op(v) : v \in {x}} : TRUE
Apply2(Op(_, _), x, y) == CHOOSE r \in {Op(v, w) : v \in {x}, w \in {y}} : TRUE

\* s from index i to its end
From(s, i) == SubSeq(s, i, Len(s))

\* number of leading characters of s, from index i, that lie in the set C
RunLen(s, i, C) ==
    LET stops == {k \in i..Len(s) : s[k] \notin C}
    IN  IF stops = {}
        THEN (IF i <= Len(s) THEN Len(s) - i + 1 ELSE 0)
        ELSE (CHOOSE k \in stops : \A m \in stops : k <= m) - i

\* String.prototype.includes
Includes(s, sub) ==
    \E i \in 1..(Len(s) + 1) :
        /\ i + Len(sub) - 1 <= Len(s)
        /\ SubSeq(s, i, i + Len(sub) - 1) = sub

-----------------------------------------------------------------------------
(* extractVideoId *)

\* one element of a pattern against one character
ElemMatches(p, c) ==
    CASE p = "<any>"  -> c \notin LineTerminators
      [] p = "<word>" -> c \in WordChars
      [] OTHER        -> c = p

\* the pattern pat matches s at index i
MatchAt(s, i, pat) ==
    /\ i + Len(pat) - 1 <= Len(s)
    /\ \A k \in 1..Len(pat) : ElemMatches(pat[k], s[i + k - 1])

\* (youtu.be\/|v\/|u\/\w\/|embed\/|watch\?v=|&v=)
UrlShapes ==
    << <<"y", "o", "u", "t", "u", "<any>", "b", "e", "/">>,
       <<"v", "/">>,
       <<"u", "/", "<word>", "/">>,
       <<"e", "m", "b", "e", "d", "/">>,
       <<"w", "a", "t", "c", "h", "?", "v", "=">>,
       <<"&", "v", "=">> >>

\* the first alternative of UrlShapes matching s at i, or 0
ShapeAt(s, i) ==
    LET hits == {a \in 1..Len(UrlShapes) : MatchAt(s, i, UrlShapes[a])}
    IN  IF hits = {} THEN 0 ELSE CHOOSE a \in hits : \A b \in hits : a <= b

\* [^#&?]
TokenChars(s) == {s[k] : k \in 1..Len(s)} \ {"#", "&", "?"}

NoId == [found |-> FALSE, id |-> <<>>]

\* the places where ^.* can stop: a shape starts there and no line terminator
\* comes before
ShapeStarts(u) ==
    {i \in 1..Len(u) :
        /\ \A k \in 1..(i - 1) : u[k] \notin LineTerminators
        /\ ShapeAt(u, i) > 0}

\* group 2 for the shape that starts at i: the longest run of token characters
\* after the shape
GroupTwo(u, i) ==
    LET j == i + Len(UrlShapes[ShapeAt(u, i)])
    IN  SubSeq(u, j, j + RunLen(u, j, TokenChars(u)) - 1)

\* (match && match[2].length === 11) ? match[2] : null
IdOrNull(token) == IF Len(token) = 11 THEN [found |-> TRUE, id |-> token] ELSE NoId

\* /^.*(shape)([^#&?]*).*/ : the greedy prefix stops at the last place where a
\* shape starts; group 2 follows that shape; the trailing .* always matches.
extractVideoId(u) ==
    IF ShapeStarts(u) = {} THEN NoId
    ELSE Apply1(IdOrNull, Apply2(GroupTwo, u, Apply1(Max, ShapeStarts(u))))

-----------------------------------------------------------------------------
(* cleanFormatting *)

\* .replace(/\*\*\*\*/g, '**')
RECURSIVE FixQuadAsterisks(_)
FixQuadAsterisks(s) ==
    IF s = <<>> THEN <<>>
    ELSE IF Len(s) >= 4 /\ SubSeq(s, 1, 4) = <<"*", "*", "*", "*">>
         THEN <<"*", "*">> \o FixQuadAsterisks(From(s, 5))
         ELSE <<s[1]>> \o FixQuadAsterisks(Tail(s))

\* .replace(/(\d+)\.\s*/g, '\n\n**$1.** ')
RECURSIVE FormatNumberedLists(_)
FormatNumberedLists(s) ==
    IF s = <<>> THEN <<>>
    ELSE IF s[1] \in Digits
         THEN LET d == RunLen(s, 1, Digits)
              IN  IF d < Len(s) /\ s[d + 1] = "."
                  THEN LET w == RunLen(s, d + 2, SpaceChars)
                       IN  <<"\n", "\n", "*", "*">> \o SubSeq(s, 1, d)
                             \o <<".", "*", "*", " ">>
                             \o FormatNumberedLists(From(s, d + 2 + w))
                  ELSE SubSeq(s, 1, d) \o FormatNumberedLists(From(s, d + 1))
         ELSE <<s[1]>> \o FormatNumberedLists(Tail(s))

\* .replace(/\n{3,}/g, '\n\n')
RECURSIVE CollapseNewlines(_)
CollapseNewlines(s) ==
    IF s = <<>> THEN <<>>
    ELSE IF s[1] = "\n"
         THEN LET n == RunLen(s, 1, {"\n"})
              IN  SubSeq(s, 1, Min2(n, 2)) \o CollapseNewlines(From(s, n + 1))
         ELSE <<s[1]>> \o CollapseNewlines(Tail(s))

\* /^(.+):$/ on one line -> '**$1:**'
BoldHeaderLine(line) ==
    IF Len(line) >= 2 /\ line[Len(line)] = ":"
    THEN <<"*", "*">> \o SubSeq(line, 1, Len(line) - 1) \o <<":", "*", "*">>
    ELSE line

\* .replace(/^(.+):$/gm, '**$1:**') : line by line
RECURSIVE BoldHeaders(_)
BoldHeaders(s) ==
    LET n == RunLen(s, 1, {s[k] : k \in 1..Len(s)} \ LineTerminators)
    IN  IF n = Len(s) THEN BoldHeaderLine(s)
        ELSE BoldHeaderLine(SubSeq(s, 1, n)) \o <<s[n + 1]>>
               \o BoldHeaders(From(s, n + 2))

\* .trim()
Trim(s) ==
    LET idx == {k \in 1..Len(s) : s[k] \notin SpaceChars}
    IN  IF idx = {} THEN <<>>
        ELSE SubSeq(s, CHOOSE a \in idx : \A b \in idx : a <= b, Max(idx))

cleanFormatting(t) ==
    Apply1(Trim,
      Apply1(BoldHeaders,
        Apply1(CollapseNewlines,
          Apply1(FormatNumberedLists,
            Apply1(FixQuadAsterisks, t)))))

-----------------------------------------------------------------------------
(* JavaScript values *)

UNDEF == "<undefined>"

\* a value of a request field: undefined, a string, or a non-zero number
Undef == [t |-> "undef", s |-> <<>>]
Str(chars) == [t |-> "str", s |-> chars]
Num == [t |-> "num", s |-> <<>>]

\* JavaScript truthiness of such a value
Truthy(v) == v.t = "num" \/ (v.t = "str" /\ v.s # <<>>)

\* truthiness of an opaque string
TruthyStr(x) == x # UNDEF /\ x # ""

\* a || b
OrElse(a, b) == IF Truthy(a) THEN a ELSE b

\* Array.prototype.join
RECURSIVE Join(_, _)
Join(parts, sep) ==
    IF parts = <<>> THEN <<>>
    ELSE IF Len(parts) = 1 THEN parts[1]
         ELSE parts[1] \o sep \o Join(Tail(parts), sep)

-----------------------------------------------------------------------------
(* formatDuration *)

\* index of the first "PT" in s, or 0
FirstPT(s) ==
    LET at == {i \in 1..Len(s) : MatchAt(s, i, <<"P", "T">>)}
    IN  IF at = {} THEN 0 ELSE CHOOSE i \in at : \A j \in at : i <= j

\* (\d+X)? at index i of s: [digits, next]
UnitAt(s, i, unit) ==
    LET d == RunLen(s, i, Digits)
    IN  IF d > 0 /\ i + d <= Len(s) /\ s[i + d] = unit
        THEN [digits |-> SubSeq(s, i, i + d - 1), next |-> i + d + 1]
        ELSE [digits |-> <<>>, next |-> i]

\* one optional group of the pattern, matched where the previous one ended;
\* a matched group adds its digits and its label to the result
DurationPart(st, unit) ==
    LET u == UnitAt(st.s, st.next, unit.letter)
    IN  [s |-> st.s, next |-> u.next,
         result |-> st.result \o (IF u.digits # <<>> THEN u.digits \o unit.label ELSE <<>>)]

\* result.trim() || duration
TrimmedOr(result, duration) == IF Trim(result) # <<>> THEN Trim(result) ELSE duration

\* duration.match(/PT(\d+H)?(\d+M)?(\d+S)?/), then "<h>h <m>m <s>s" trimmed;
\* 'Unknown' for a missing duration, the input itself when nothing matched
\* or nothing was captured.
formatDuration(duration) ==
    IF ~Truthy(duration) THEN <<"U", "n", "k", "n", "o", "w", "n">>
    ELSE LET s == duration.s
             p == FirstPT(s)
             hours == Apply2(DurationPart, [s |-> s, next |-> p + 2, result |-> <<>>],
                             [letter |-> "H", label |-> <<"h", " ">>])
             minutes == Apply2(DurationPart, hours, [letter |-> "M", label |-> <<"m", " ">>])
             seconds == Apply2(DurationPart, minutes, [letter |-> "S", label |-> <<"s">>])
         IN  IF p = 0 THEN s ELSE Apply2(TrimmedOr, seconds.result, s)

-----------------------------------------------------------------------------
(* getVideoMetadata, getVideoTranscript *)

\* what the handler substitutes when the metadata promise rejects
MetadataFallback ==
    [title |-> "Title unavailable", description |-> "Metadata unavailable",
     channelTitle |-> "Unknown", publishedAt |-> UNDEF, viewCount |-> UNDEF,
     likeCount |-> UNDEF, duration |-> Undef]

\* the record built from response.data.items[0]
VideoRecord(video) ==
    [title |-> video.title,
     description |-> IF TruthyStr(video.description) THEN video.description ELSE "",
     channelTitle |-> video.channelTitle,
     publishedAt |-> video.publishedAt,
     viewCount |-> video.viewCount,
     likeCount |-> video.likeCount,
     duration |-> video.duration]

\* getVideoMetadata once axios.get has answered: the promise's outcome
getVideoMetadata(answer) ==
    IF answer.kind = "error"
    THEN [ok |-> FALSE, value |-> MetadataFallback,
          message |-> "Failed to fetch video metadata: " \o answer.message]
    ELSE IF Len(answer.items) > 0
         THEN [ok |-> TRUE, value |-> VideoRecord(answer.items[1]), message |-> ""]
         ELSE [ok |-> FALSE, value |-> MetadataFallback,
               message |-> "Failed to fetch video metadata: Video not found"]

\* getVideoMetadata when YOUTUBE_API_KEY is not set: it rejects before any call
getVideoMetadataNoKey ==
    [ok |-> FALSE, value |-> MetadataFallback,
     message |-> "Failed to fetch video metadata: YouTube API key not configured"]

\* getVideoMetadata(videoId).catch(err => placeholder)
MetadataBranch(result) == IF result.ok THEN result.value ELSE MetadataFallback

NullTranscript == [isNull |-> TRUE, text |-> <<>>]

\* getVideoTranscript once fetchTranscript has answered: the caption texts
\* joined by single spaces, or null on any error
getVideoTranscript(answer) ==
    IF answer.kind = "error" THEN NullTranscript
    ELSE [isNull |-> FALSE, text |-> Join(answer.frags, <<" ">>)]

\* truthiness of the transcript value (null and '' are falsy)
HasTranscript(t) == ~t.isNull /\ t.text # <<>>

-----------------------------------------------------------------------------
(* exports.handler: pieces *)

CorsHeaders ==
    [AccessControlAllowOrigin |-> "*",
     AccessControlAllowHeaders |-> "Content-Type",
     AccessControlAllowMethods |-> "GET, POST, PUT, DELETE"]

\* the clock reading of new Date().toISOString()
TimestampNow == "<now>"

DefaultModel == <<"g", "e", "m", "i", "n", "i", "-", "1", ".", "5", "-", "f", "l", "a", "s", "h">>

\* the three method tests at the top of the handler
MethodDispatch(m) ==
    CASE m = "OPTIONS" -> "preflight"
      [] m = "GET"     -> "health"
      [] m # "POST"    -> "notallowed"
      [] OTHER         -> "summarize"

NoFields == [youtube_link |-> Undef, model |-> Undef, additional_prompt |-> Undef]

\* const { youtube_link, model, additional_prompt } = JSON.parse(event.body)
\* A malformed body is the text '{bad'.  The messages of the SyntaxErrors are
\* worded as V8 words them since Node 20; older releases word the first and
\* the third differently.
ParseBody(body) ==
    CASE body.kind = "undefined" ->
             [threw |-> TRUE, message |-> "\"undefined\" is not valid JSON",
              fields |-> NoFields]
      [] body.kind = "empty" ->
             [threw |-> TRUE, message |-> "Unexpected end of JSON input",
              fields |-> NoFields]
      [] body.kind = "malformed" ->
             [threw |-> TRUE,
              message |-> "Expected property name or '}' in JSON at position 1",
              fields |-> NoFields]
      [] body.kind = "null" ->
             [threw |-> TRUE,
              message |-> "Cannot destructure property 'youtube_link' of 'JSON.parse(...)' as it is null.",
              fields |-> NoFields]
      [] body.kind = "scalar" ->
             [threw |-> FALSE, message |-> "", fields |-> NoFields]
      [] OTHER ->
             [threw |-> FALSE, message |-> "",
              fields |-> [youtube_link |-> body.youtube_link, model |-> body.model,
                          additional_prompt |-> body.additional_prompt]]

Response(status, body) == [statusCode |-> status, headers |-> CorsHeaders, body |-> body]

PreflightResponse == Response(200, [kind |-> "empty"])

HealthResponse ==
    Response(200, [kind |-> "health", status |-> "OK",
                   message |-> "YouTube Summarizer API is running",
                   timestamp |-> TimestampNow,
                   geminiApiKeyExists |-> geminiKey,
                   youtubeApiKeyExists |-> youtubeKey,
                   features |-> <<"Real video metadata", "Video transcripts",
                                  "AI analysis">>])

MethodNotAllowedResponse ==
    Response(405, [kind |-> "error", error |-> "Method not allowed"])

BadRequestResponse(msg) == Response(400, [kind |-> "error", error |-> msg])

\* the catch block's response
CatchResponse(msg) ==
    Response(500, [kind |-> "error", error |-> "Failed to analyze video", details |-> msg])

\* A quality block whose richness label tests transcript !== null.
AnalysisQualityNullTest(md, tr) ==
    [has_metadata |-> TruthyStr(md.title),
     has_transcript |-> HasTranscript(tr),
     transcript_length |-> IF HasTranscript(tr) THEN Len(tr.text) ELSE 0,
     content_richness |-> IF ~tr.isNull THEN "High" ELSE "Medium"]

\* analysis_quality of the 200 response
AnalysisQuality(md, tr) ==
    [has_metadata |-> TruthyStr(md.title),
     has_transcript |-> HasTranscript(tr),
     transcript_length |-> IF HasTranscript(tr) THEN Len(tr.text) ELSE 0,
     content_richness |-> IF HasTranscript(tr) THEN "High" ELSE "Medium"]

\* video_metadata of the 200 response
VideoMetadataExcerpt(md) ==
    [title |-> md.title, channel |-> md.channelTitle,
     duration |-> formatDuration(md.duration),
     views |-> md.viewCount, likes |-> md.likeCount, published |-> md.publishedAt]

\* the 200 response of a summarization
AnalysisResponse(summary, mname, link, vid, md, tr) ==
    Response(200, [kind |-> "analysis", success |-> TRUE, summary |-> summary,
                   model_used |-> mname, video_url |-> link, video_id |-> vid,
                   video_metadata |-> VideoMetadataExcerpt(md),
                   analysis_quality |-> AnalysisQuality(md, tr),
                   timestamp |-> TimestampNow])

\* A post-processing test that cleans every model's output.
NeedsCleanupAlways(mname) == TRUE

\* modelName.includes('2.0')
NeedsCleanup(mname) == Includes(mname.s, <<"2", ".", "0">>)

\* The parts of the prompt that depend on a branch of the code: the transcript
\* block (first 6000 characters and a marker, or the fixed "not available"
\* line), the special-instructions block and the formatting suffix.  The
\* fixed text and the number and date formatting of the details block are
\* left out.
ComposePrompt(md, tr, extra, mname) ==
    [title |-> md.title,
     channel |-> md.channelTitle,
     duration |-> formatDuration(md.duration),
     transcript |-> IF HasTranscript(tr)
                    THEN [available |-> TRUE,
                          excerpt |-> SubSeq(tr.text, 1, Min2(Len(tr.text), 6000)),
                          continues |-> Len(tr.text) > 6000]
                    ELSE [available |-> FALSE, excerpt |-> <<>>, continues |-> FALSE],
     special |-> IF Truthy(extra) /\ Trim(extra.s) # <<>> THEN extra.s ELSE <<>>,
     suffix |-> IF NeedsCleanup(mname) THEN "2.0" ELSE "default",
     maxOutputTokens |-> IF NeedsCleanup(mname) THEN 8192 ELSE 3000]

\* A try block that starts after JSON.parse.
TryBlockCoversAfterParse(site) == site \in {"extract", "compose", "generate"}

\* the statements inside the handler's try block
TryBlockCovers(site) == site \in {"parse", "extract", "compose", "generate"}

\* A fan-in that continues as soon as one branch has settled.
FetchSettledEither == metaState = "settled" \/ transState = "settled"

\* await Promise.all([...]) : both branches have settled
FetchSettled == metaState = "settled" /\ transState = "settled"

-----------------------------------------------------------------------------
(* Inputs *)

Methods == {"GET", "POST", "OPTIONS", "PUT", "DELETE"}

IdChars == <<"d", "Q", "w", "4", "w", "9", "W", "g", "X", "c", "Q">>

\* a token of n identifier characters
Token(n) == [i \in 1..n |-> IdChars[((i - 1) % 11) + 1]]

ShortUrl == <<"y", "o", "u", "t", "u", ".", "b", "e", "/">>
WatchUrl == <<"w", "a", "t", "c", "h", "?", "v", "=">>

\* youtube_link values of the request body
Links ==
    { Undef, Num, Str(<<>>),
      Str(<<"h", "t", "t", "p", "s", ":", "/", "/">> \o ShortUrl \o Token(11)),
      Str(WatchUrl \o Token(11) \o <<"&", "t", "=", "1">>),
      Str(ShortUrl \o Token(10)),
      Str(<<"a", "b", "c">>),
      Str(ShortUrl \o Token(11) \o <<"?", "a", "=", "v", "/", "x">>) }

ModelChoices ==
    { Undef, Num, Str(DefaultModel),
      Str(<<"g", "e", "m", "i", "n", "i", "-", "2", ".", "0", "-", "f", "l", "a", "s", "h">>) }

ExtraChoices == { Undef, Num, Str(<<" ", " ">>), Str(<<"b", "e", " ", "b", "r", "i", "e", "f">>) }

NonObjectBodies ==
    { [kind |-> k, youtube_link |-> Undef, model |-> Undef, additional_prompt |-> Undef] :
        k \in {"undefined", "empty", "malformed", "null", "scalar"} }

ObjectBodies ==
    { [kind |-> "object", youtube_link |-> l, model |-> m, additional_prompt |-> a] :
        l \in Links, m \in ModelChoices, a \in ExtraChoices }

Events == { [httpMethod |-> m, body |-> b] : m \in Methods, b \in NonObjectBodies \cup ObjectBodies }

VideoA ==
    [title |-> "Never Gonna Give You Up", description |-> "Official video",
     channelTitle |-> "Rick Astley", publishedAt |-> "2009-10-25T06:57:33Z",
     viewCount |-> "1500000000", likeCount |-> "17000000",
     duration |-> Str(<<"P", "T", "3", "M", "3", "3", "S">>)]

\* an item whose optional fields the API left out
VideoB ==
    [title |-> "", description |-> UNDEF, channelTitle |-> "Some channel",
     publishedAt |-> UNDEF, viewCount |-> UNDEF, likeCount |-> UNDEF,
     duration |-> Undef]

\* what the metadata API can answer
MetaAnswers ==
    { [kind |-> "error", message |-> "Request failed with status code 403", items |-> <<>>],
      [kind |-> "response", message |-> "", items |-> <<>>],
      [kind |-> "response", message |-> "", items |-> <<VideoA>>],
      [kind |-> "response", message |-> "", items |-> <<VideoB>>] }

FragmentTexts == { <<>>, <<"h", "i">> }

\* what the transcript service can answer
TransAnswers ==
    { [kind |-> "error", frags |-> <<>>] }
    \cup { [kind |-> "fragments", frags |-> f] :
             f \in UNION { [1..n -> FragmentTexts] : n \in 0..MaxFragments } }

GenTexts ==
    { <<"o", "k">>, <<"1", ".", " ", "a">>, <<"K", "e", "y", ":", "\n", "\n", "\n", "x">> }

\* what the generation API can answer
GenAnswers ==
    { [kind |-> "error", message |-> "API key not valid", text |-> <<>>] }
    \cup { [kind |-> "ok", message |-> "", text |-> t] : t \in GenTexts }

NoAnswer == [kind |-> "none"]

NoMetadata ==
    [title |-> UNDEF, description |-> UNDEF, channelTitle |-> UNDEF,
     publishedAt |-> UNDEF, viewCount |-> UNDEF, likeCount |-> UNDEF, duration |-> Undef]

NoPrompt == [title |-> UNDEF]

\* strings handed to cleanFormatting
CleanAlphabet == {"1", ".", "*", ":", "\n", " ", "a", "U+000B", "U+2028"}
CleanInputs == UNION { [1..n -> CleanAlphabet] : n \in 0..MaxTextLen }

\* strings handed to extractVideoId: prefix, shape, token, suffix
UrlPrefixes == { <<>>, <<"/", "/">>, <<"m", ".">>, <<"a", "U+2028">> }
UrlShapeTexts ==
    { ShortUrl, WatchUrl,
      <<"y", "o", "u", "t", "u", "x", "b", "e", "/">>,
      <<"v", "/">>, <<"u", "/", "0", "/">>, <<"u", "/", "-", "/">>,
      <<"e", "m", "b", "e", "d", "/">>, <<"&", "v", "=">>,
      <<"w", "a", "t", "c", "h", "?", "x", "=">>, <<>> }
UrlSuffixes == { <<>>, <<"&", "t", "=", "1">>, <<"#", "t">>, <<"?", "a", "=", "v", "/", "x">> }
ParseInputs ==
    { p \o sh \o Token(n) \o sf :
        p \in UrlPrefixes, sh \in UrlShapeTexts, n \in 0..MaxTokenLen, sf \in UrlSuffixes }

-----------------------------------------------------------------------------
(* Initial states *)

PureIdle ==
    /\ url = <<>>
    /\ parsed = NoId
    /\ parseDone = TRUE
    /\ text = <<>>
    /\ passes = 2
    /\ out1 = <<>>
    /\ out2 = <<>>

HandlerFresh ==
    /\ req = NoFields
    /\ videoId = <<>>
    /\ metaState = "idle"
    /\ transState = "idle"
    /\ metadata = NoMetadata
    /\ transcript = NullTranscript
    /\ modelName = Undef
    /\ prompt = NoPrompt
    /\ calls = [meta |-> 0, trans |-> 0, gen |-> 0]
    /\ responses = <<>>
    /\ escaped = FALSE
    /\ stages = <<>>
    /\ settleOrder = <<>>
    /\ outcomes = [meta |-> NoAnswer, trans |-> NoAnswer, gen |-> NoAnswer]
    /\ srvResponses = <<>>

HandlerIdle ==
    /\ youtubeKey = FALSE
    /\ geminiKey = FALSE
    /\ event = [httpMethod |-> "GET", body |-> CHOOSE b \in NonObjectBodies : b.kind = "undefined"]
    /\ pc = "off"
    /\ srvPc = "off"
    /\ HandlerFresh

\* one request arrives at the function; node is started on src/server.js
Init ==
    /\ youtubeKey \in BOOLEAN
    /\ geminiKey \in BOOLEAN
    /\ event \in Events
    /\ pc = "start"
    /\ srvPc = "start"
    /\ HandlerFresh
    /\ PureIdle

InitParse ==
    /\ url \in ParseInputs
    /\ parsed = NoId
    /\ parseDone = FALSE
    /\ text = <<>> /\ passes = 2 /\ out1 = <<>> /\ out2 = <<>>
    /\ HandlerIdle

InitClean ==
    /\ text \in CleanInputs
    /\ passes = 0
    /\ out1 = <<>>
    /\ out2 = <<>>
    /\ url = <<>> /\ parsed = NoId /\ parseDone = TRUE
    /\ HandlerIdle

-----------------------------------------------------------------------------
(* The pure functions as steps *)

ParseUrl ==
    /\ ~parseDone
    /\ parsed' = extractVideoId(url)
    /\ parseDone' = TRUE
    /\ UNCHANGED <<url, text, passes, out1, out2, fnVars, srvVars>>

\* cleanFormatting applied to the text, then to its own result
ApplyClean ==
    /\ passes < 2
    /\ passes' = passes + 1
    /\ IF passes = 0
       THEN out1' = cleanFormatting(text) /\ out2' = out2
       ELSE out2' = cleanFormatting(out1) /\ out1' = out1
    /\ UNCHANGED <<url, parsed, parseDone, text, fnVars, srvVars>>

-----------------------------------------------------------------------------
(* exports.handler *)

\* return a response
Finish(resp, stg) ==
    /\ pc' = "done"
    /\ responses' = Append(responses, resp)
    /\ stages' = stages \o stg
    /\ escaped' = escaped

\* an exception thrown at a site of the handler
Raise(site, msg, stg) ==
    IF TryBlockCovers(site)
    THEN Finish(CatchResponse(msg), stg \o <<"REJECT">>)
    ELSE /\ pc' = "done"
         /\ responses' = responses
         /\ stages' = stages \o stg
         /\ escaped' = TRUE

\* Promise.all([getVideoMetadata(videoId).catch(..), getVideoTranscript(videoId).catch(..)])
\* up to the await: without a key the metadata branch has already taken its
\* fallback, otherwise axios.get is in flight; fetchTranscript is in flight.
StartFetch(vid) ==
    /\ videoId' = vid
    /\ pc' = "fetch"
    /\ stages' = stages \o <<"VALIDATE", "PARSE_ID", "FETCH">>
    /\ transState' = "pending"
    /\ transcript' = transcript
    /\ IF youtubeKey
       THEN /\ metaState' = "pending"
            /\ metadata' = metadata
            /\ calls' = [calls EXCEPT !.meta = @ + 1, !.trans = @ + 1]
            /\ outcomes' = outcomes
            /\ settleOrder' = settleOrder
       ELSE /\ metaState' = "settled"
            /\ metadata' = MetadataBranch(getVideoMetadataNoKey)
            /\ calls' = [calls EXCEPT !.trans = @ + 1]
            /\ outcomes' = [outcomes EXCEPT !.meta = [kind |-> "nokey"]]
            /\ settleOrder' = Append(settleOrder, "metadata")
    /\ responses' = responses
    /\ escaped' = escaped

\* The handler from its entry to its first await or return.
FnReceive ==
    /\ pc = "start"
    /\ LET d == MethodDispatch(event.httpMethod)
           p == ParseBody(event.body)
           link == p.fields.youtube_link
           quiet == <<videoId, metaState, transState, metadata, transcript,
                      calls, settleOrder, outcomes>>
       IN  CASE d = "preflight" ->
                    Finish(PreflightResponse, <<"RESPOND">>) /\ UNCHANGED <<req, quiet>>
             [] d = "health" ->
                    Finish(HealthResponse, <<"RESPOND">>) /\ UNCHANGED <<req, quiet>>
             [] d = "notallowed" ->
                    Finish(MethodNotAllowedResponse, <<"REJECT">>) /\ UNCHANGED <<req, quiet>>
             [] OTHER ->
                    IF p.threw
                    THEN Raise("parse", p.message, <<>>) /\ UNCHANGED <<req, quiet>>
                    ELSE /\ req' = p.fields
                         /\ IF ~Truthy(link)
                            THEN /\ Finish(BadRequestResponse("YouTube link is required"),
                                           <<"VALIDATE", "REJECT">>)
                                 /\ UNCHANGED quiet
                            ELSE IF link.t # "str"
                            THEN /\ Raise("extract", "url.match is not a function",
                                          <<"VALIDATE", "PARSE_ID">>)
                                 /\ UNCHANGED quiet
                            ELSE \E vid \in {extractVideoId(link.s)} :
                                   IF ~vid.found
                                   THEN /\ Finish(BadRequestResponse("Invalid YouTube URL"),
                                                  <<"VALIDATE", "PARSE_ID", "REJECT">>)
                                        /\ UNCHANGED quiet
                                   ELSE StartFetch(vid.id)
    /\ UNCHANGED <<youtubeKey, geminiKey, event, modelName, prompt, srvVars, pureVars>>

\* axios.get answers; the metadata branch takes its result or its fallback
MetaSettle ==
    /\ metaState = "pending"
    /\ \E a \in MetaAnswers :
          /\ metadata' = MetadataBranch(getVideoMetadata(a))
          /\ outcomes' = [outcomes EXCEPT !.meta = a]
    /\ metaState' = "settled"
    /\ settleOrder' = Append(settleOrder, "metadata")
    /\ UNCHANGED <<youtubeKey, geminiKey, event, pc, req, videoId, transState, transcript,
                   modelName, prompt, calls, responses, escaped, stages,
                   srvVars, pureVars>>

\* fetchTranscript answers; the transcript branch takes the text or null
TransSettle ==
    /\ transState = "pending"
    /\ \E a \in TransAnswers :
          /\ transcript' = getVideoTranscript(a)
          /\ outcomes' = [outcomes EXCEPT !.trans = a]
    /\ transState' = "settled"
    /\ settleOrder' = Append(settleOrder, "transcript")
    /\ UNCHANGED <<youtubeKey, geminiKey, event, pc, req, videoId, metaState, metadata,
                   modelName, prompt, calls, responses, escaped, stages,
                   srvVars, pureVars>>

\* From the end of the Promise.all await to the generateContent await.
FnCompose ==
    /\ pc = "fetch"
    /\ FetchSettled
    /\ LET mname == OrElse(req.model, Str(DefaultModel))
       IN  IF req.additional_prompt.t = "num"
           THEN /\ Raise("compose", "additional_prompt.trim is not a function", <<"COMPOSE">>)
                /\ UNCHANGED <<modelName, prompt, calls>>
           ELSE IF mname.t = "num"
           THEN /\ Raise("compose", "modelName.includes is not a function", <<"COMPOSE">>)
                /\ modelName' = mname
                /\ UNCHANGED <<prompt, calls>>
           ELSE /\ modelName' = mname
                /\ prompt' = ComposePrompt(metadata, transcript, req.additional_prompt, mname)
                /\ calls' = [calls EXCEPT !.gen = @ + 1]
                /\ pc' = "generate"
                /\ stages' = stages \o <<"COMPOSE", "GENERATE">>
                /\ UNCHANGED <<responses, escaped>>
    /\ UNCHANGED <<youtubeKey, geminiKey, event, req, videoId, metaState, transState, metadata,
                   transcript, settleOrder, outcomes, srvVars, pureVars>>

\* A handler that calls generateContent again after a failure.
OnGenerateRejectedRetry(msg) ==
    IF calls.gen < 2
    THEN /\ calls' = [calls EXCEPT !.gen = @ + 1]
         /\ UNCHANGED <<pc, responses, stages, escaped>>
    ELSE Raise("generate", msg, <<>>) /\ calls' = calls

\* generateContent rejected: the catch block answers
OnGenerateRejected(msg) == Raise("generate", msg, <<>>) /\ calls' = calls

\* generateContent answers: post-process and respond, or the catch block
GenSettle ==
    /\ pc = "generate"
    /\ \E a \in GenAnswers :
          /\ outcomes' = [outcomes EXCEPT !.gen = a]
          /\ IF a.kind = "ok"
             THEN LET clean == NeedsCleanup(modelName)
                      summary == IF clean THEN cleanFormatting(a.text) ELSE a.text
                  IN  /\ Finish(AnalysisResponse(summary, modelName, req.youtube_link,
                                                 videoId, metadata, transcript),
                                (IF clean THEN <<"POSTPROCESS">> ELSE <<>>) \o <<"RESPOND">>)
                      /\ calls' = calls
             ELSE OnGenerateRejected(a.message)
    /\ UNCHANGED <<youtubeKey, geminiKey, event, req, videoId, metaState, transState, metadata,
                   transcript, modelName, prompt, settleOrder, srvVars, pureVars>>

-----------------------------------------------------------------------------
(* server.js *)

\* node reads src/server.js.  Lines 74-76 are not JavaScript (the arguments of
\* console.log have lost their quotes), so the file is rejected with a
\* SyntaxError before its first statement runs: app.post('/summarize') is
\* never registered, the process exits and no request is answered.
SrvLoad ==
    /\ srvPc = "start"
    /\ srvPc' = "exited"
    /\ srvResponses' = srvResponses
    /\ UNCHANGED <<fnVars, pureVars>>

-----------------------------------------------------------------------------
(* Specifications *)

FnNext == FnReceive \/ MetaSettle \/ TransSettle \/ FnCompose \/ GenSettle

Next == FnNext \/ SrvLoad

Spec == Init /\ [][Next]_vars

\* Every outbound call is answered and every continuation of the handler runs.
FairSpec == Spec /\ WF_vars(FnNext)

SpecParse == InitParse /\ [][ParseUrl]_vars

SpecClean == InitClean /\ [][ApplyClean]_vars

-----------------------------------------------------------------------------
(* Properties *)

Done == pc = "done"
IsPost == event.httpMethod = "POST"
Answered == Done /\ Len(responses) = 1
Resp == responses[1]
IsAnalysis == Answered /\ Resp.statusCode = 200 /\ Resp.body.kind = "analysis"
FetchStarted == transState # "idle"

\* the metadata fetch failed: no credential, a transport error, or zero items
MetaFailed ==
    \/ outcomes.meta.kind \in {"nokey", "error"}
    \/ outcomes.meta.kind = "response" /\ outcomes.meta.items = <<>>

\* the transcript fetch failed, or it fetched an empty text
NoTranscriptFetched ==
    \/ outcomes.trans.kind = "error"
    \/ outcomes.trans.kind = "fragments" /\ Join(outcomes.trans.frags, <<" ">>) = <<>>

\* C1: a POST whose video id was parsed, whose metadata fetch failed and whose
\* generation succeeded is answered 200 with the placeholder title and
\* analysis_quality.has_metadata false.
C1_FailedMetadataReportedMissing ==
    (IsPost /\ Done /\ FetchStarted /\ MetaFailed /\ outcomes.gen.kind = "ok")
        => /\ IsAnalysis
           /\ Resp.body.video_metadata.title = "Title unavailable"
           /\ Resp.body.analysis_quality.has_metadata = FALSE

\* C2: in every 200 analysis response, a failed or empty transcript fetch gives
\* has_transcript false, transcript_length 0 and richness "Medium"; richness is
\* "High" exactly when has_transcript is true, and then transcript_length is
\* the length of the fetched text.
C2_TranscriptQuality ==
    IsAnalysis =>
        LET q == Resp.body.analysis_quality
        IN  /\ NoTranscriptFetched =>
                  /\ q.has_transcript = FALSE
                  /\ q.transcript_length = 0
                  /\ q.content_richness = "Medium"
            /\ q.content_richness \in {"High", "Medium"}
            /\ (q.content_richness = "High") <=> (q.has_transcript = TRUE)
            /\ q.has_transcript = TRUE =>
                  /\ outcomes.trans.kind = "fragments"
                  /\ q.transcript_length = Len(Join(outcomes.trans.frags, <<" ">>))

C2_Witness ==
    /\ IsAnalysis
    /\ outcomes.trans.kind = "error"
    /\ Resp.body.analysis_quality.content_richness = "Medium"

\* youtube_link is missing from the request, or no identifier can be
\* extracted from it
LinkMissingOrInvalid ==
    \/ event.body.kind \in {"undefined", "empty", "null", "scalar"}
    \/ /\ event.body.kind = "object"
       /\ \/ ~Truthy(event.body.youtube_link)
          \/ event.body.youtube_link.t # "str"
          \/ ~extractVideoId(event.body.youtube_link.s).found

\* C3: a POST without youtube_link (an empty or absent body included) or
\* without an extractable identifier is answered 400 with an error field by
\* both variants (by the server once its process has run), and no outbound
\* call is issued.
C3_MissingOrInvalidLinkIs400 ==
    (IsPost /\ LinkMissingOrInvalid)
        => /\ calls = [meta |-> 0, trans |-> 0, gen |-> 0]
           /\ Done => /\ Answered
                      /\ Resp.statusCode = 400
                      /\ Resp.body.kind = "error"
           /\ srvPc # "start" => /\ Len(srvResponses) = 1
                                 /\ srvResponses[1].statusCode = 400
                                 /\ srvResponses[1].body.kind = "error"

AnalysisFields ==
    {"success", "summary", "model_used", "video_url", "video_id",
     "video_metadata", "analysis_quality"}

SameField(a, b, f) ==
    /\ (f \in DOMAIN a) <=> (f \in DOMAIN b)
    /\ (f \in DOMAIN a /\ f \in DOMAIN b) => a[f] = b[f]

\* C4: for the same POST the server variant, once its process has run, and
\* the function variant return the same status code and the same
\* AnalysisResult fields.
C4_VariantsAgree ==
    (IsPost /\ Answered /\ srvPc # "start")
        => /\ Len(srvResponses) = 1
           /\ Resp.statusCode = srvResponses[1].statusCode
           /\ \A f \in AnalysisFields : SameField(Resp.body, srvResponses[1].body, f)

\* C5: a failed generation call is answered 500 with {error, details}, details
\* being the underlying message, after exactly one generation call; no
\* outbound call is issued more than once per request.
C5_GenerationFailureIs500Once ==
    /\ calls.meta <= 1 /\ calls.trans <= 1 /\ calls.gen <= 1
    /\ outcomes.gen.kind = "error" =>
          /\ Answered
          /\ Resp.statusCode = 500
          /\ Resp.body.kind = "error"
          /\ Resp.body.error = "Failed to analyze video"
          /\ Resp.body.details = outcomes.gen.message
          /\ calls.gen = 1

C5_Witness ==
    /\ Answered
    /\ outcomes.gen.kind = "error"
    /\ Resp.statusCode = 500
    /\ FetchStarted

\* the tokens of length 11 that follow some recognized shape of u
ShapeTokens(u) ==
    { SubSeq(u, j, j + RunLen(u, j, TokenChars(u)) - 1) :
        j \in { i + Len(UrlShapes[ShapeAt(u, i)]) : i \in {k \in 1..Len(u) : ShapeAt(u, k) > 0} } }

\* C6: extractVideoId returns an identifier exactly when a recognized shape is
\* followed by a token of length 11, whatever follows the delimiter, and then
\* returns that token; otherwise it returns no identifier.
C6_ReturnsTokenAfterShape ==
    parseDone =>
        LET cands == { t \in ShapeTokens(url) : Len(t) = 11 }
        IN  IF cands # {} THEN parsed.found /\ parsed.id \in cands
            ELSE ~parsed.found

\* messages of the errors the two fetchers can raise
FetchErrorMessages ==
    { getVideoMetadata(a).message : a \in MetaAnswers }
    \cup { getVideoMetadataNoKey.message }

\* C7: generation is issued only after both fetch branches settled; each
\* branch's value is its own result or its own fallback whatever the other
\* branch did; a fetch failure never gives an error response.
C7_IndependentFetchBranches ==
    /\ calls.gen > 0 => metaState = "settled" /\ transState = "settled"
    /\ metaState = "settled" =>
          metadata = IF MetaFailed THEN MetadataFallback
                     ELSE VideoRecord(outcomes.meta.items[1])
    /\ transState = "settled" =>
          transcript = IF outcomes.trans.kind = "error" THEN NullTranscript
                       ELSE [isNull |-> FALSE,
                             text |-> Join(outcomes.trans.frags, <<" ">>)]
    /\ (Answered /\ FetchStarted /\ outcomes.gen.kind = "ok") => Resp.statusCode = 200
    /\ (Answered /\ FetchStarted /\ Resp.statusCode # 200) =>
          /\ Resp.statusCode = 500
          /\ Resp.body.details \notin FetchErrorMessages
          /\ \/ outcomes.gen.kind = "error"
             \/ req.additional_prompt.t = "num"
             \/ req.model.t = "num"

\* the transcript settled first, the metadata fetch then failed, and the
\* request was still answered 200 with the transcript's own text
C7_Witness ==
    /\ IsAnalysis
    /\ settleOrder = <<"transcript", "metadata">>
    /\ outcomes.meta.kind = "error"
    /\ outcomes.trans.kind = "fragments"
    /\ Resp.body.analysis_quality.has_transcript = TRUE

StageRank(st) ==
    CASE st = "VALIDATE" -> 1
      [] st = "PARSE_ID" -> 2
      [] st = "FETCH" -> 3
      [] st = "COMPOSE" -> 4
      [] st = "GENERATE" -> 5
      [] st = "POSTPROCESS" -> 6
      [] OTHER -> 7

InStages(st) == \E i \in 1..Len(stages) : stages[i] = st

StageOrder ==
    /\ \A i \in 1..Len(stages) : \A j \in 1..Len(stages) :
          i < j => StageRank(stages[i]) < StageRank(stages[j])
    /\ (calls.meta > 0 \/ calls.trans > 0 \/ InStages("FETCH")) =>
          /\ Len(stages) >= 3
          /\ SubSeq(stages, 1, 3) = <<"VALIDATE", "PARSE_ID", "FETCH">>
          /\ Truthy(req.youtube_link)
          /\ Len(videoId) = 11
    /\ (calls.gen > 0 \/ InStages("GENERATE")) =>
          /\ metaState = "settled" /\ transState = "settled"
          /\ InStages("FETCH") /\ InStages("COMPOSE")
    /\ InStages("POSTPROCESS") =>
          /\ outcomes.gen.kind = "ok"
          /\ InStages("GENERATE")
          /\ Includes(modelName.s, <<"2", ".", "0">>)
    /\ (InStages("RESPOND") \/ InStages("REJECT")) => Done

\* C8: a POST goes through VALIDATE, PARSE_ID, FETCH, COMPOSE, GENERATE,
\* (POSTPROCESS), RESPOND in that order: fetches only after validation and id
\* parsing, generation only after both fetches settled, POSTPROCESS only after
\* a successful generation with a "2.0" model; after REJECT or RESPOND there
\* is no further stage or outbound call.
C8_StagesInOrder ==
    /\ [](IsPost => StageOrder)
    /\ [][Done => (pc' = "done" /\ stages' = stages /\ calls' = calls
                   /\ responses' = responses)]_vars

C8_Witness ==
    /\ IsAnalysis
    /\ stages = <<"VALIDATE", "PARSE_ID", "FETCH", "COMPOSE", "GENERATE",
                  "POSTPROCESS", "RESPOND">>

NoQuadAsterisks(s) == ~Includes(s, <<"*", "*", "*", "*">>)
NoTripleNewline(s) == ~Includes(s, <<"\n", "\n", "\n">>)

\* C9: without quadruple asterisks and without three newlines in a row in the
\* input, the second application of cleanFormatting changes nothing.
C9_SecondPassNoOp ==
    (passes = 2 /\ NoQuadAsterisks(text) /\ NoTripleNewline(text)) => out2 = out1

ResponseWellFormed ==
    /\ ~escaped
    /\ Len(responses) <= 1
    /\ Done =>
          /\ Len(responses) = 1
          /\ Resp.statusCode \in {200, 400, 405, 500}
          /\ (Resp.statusCode = 405) <=> (event.httpMethod \notin {"GET", "POST", "OPTIONS"})
          /\ Resp.headers = CorsHeaders

\* C10: no exception leaves the handler and, every outbound call being
\* answered, every request ends in exactly one response, with status 200, 400,
\* 405 or 500 (405 exactly for a method other than GET, POST and OPTIONS) and
\* the CORS headers.
C10_ExactlyOneResponse ==
    /\ []ResponseWellFormed
    /\ <>Done

\* a POST whose body is not JSON is answered 500 by the catch block
C10_Witness ==
    /\ Answered
    /\ IsPost
    /\ event.body.kind = "malformed"
    /\ Resp.statusCode = 500
    /\ Resp.headers = CorsHeaders

=============================================================================
